---- MODULE Spec2Model ----
(***************************************************************************)
(* A model of chrome_profile_gui.py: the profile locator, the slot         *)
(* allocator, the unwrap step, the two JSON patchers and the import        *)
(* thread that strings them together.                                      *)
(*                                                                         *)
(* Strings that the code parses (folder names, display names) are          *)
(* sequences of one-character strings.  JSON values are tagged records     *)
(* [t, v]; a JSON object is a function from its keys to JSON values.       *)
(***************************************************************************)
EXTENDS Integers, Sequences, FiniteSets, TLC

VARIABLES
    base,        \* the "User Data" directory: entry name -> node
    localState,  \* the "Local State" file of the User Data directory
    backups,     \* the "Local State.bak_<timestamp>" files: timestamp -> text
    now,         \* the wall clock, in seconds (time.strftime)
    pc,          \* position of the import thread in App._do_import
    imp,         \* locals of the import thread
    slot,        \* last value returned by next_profile_folder_name
    listing,     \* last value returned by list_profiles_with_names
    call,        \* observation of the calls of update_local_state_register_profile
    uw,          \* the two extraction roots of the unwrap comparison
    threads,     \* the threads started by run_export / run_import: their locals
    stateTmp     \* the "Local State.tmp" file beside the registry

vars == <<base, localState, backups, now, pc, imp, slot, listing, call, uw,
          threads, stateTmp>>

-----------------------------------------------------------------------------
(* Bounds of the model *)

MaxSlot == 3
MaxClock == 1
MaxCalls == 2
MaxImports == 1
MaxThreads == 2

-----------------------------------------------------------------------------
(* Python strings *)

Digits == <<"0", "1", "2", "3", "4", "5", "6", "7", "8", "9">>

IsDigit(c) == \E i \in 1..10 : Digits[i] = c

DigitVal(c) == (CHOOSE i \in 1..10 : Digits[i] = c) - 1

Max(S) == CHOOSE x \in S : \A y \in S : y <= x

StartsWith(s, p) == Len(s) >= Len(p) /\ SubSeq(s, 1, Len(p)) = p

\* str.split(sep) with a one-character separator: empty tokens are kept
RECURSIVE Split(_, _)
Split(s, sep) ==
    IF \A i \in 1..Len(s) : s[i] # sep
    THEN <<s>>
    ELSE LET i == CHOOSE k \in 1..Len(s) :
                      s[k] = sep /\ \A j \in 1..(k - 1) : s[j] # sep
         IN  <<SubSeq(s, 1, i - 1)>> \o Split(SubSeq(s, i + 1, Len(s)), sep)

RECURSIVE LStrip(_)
LStrip(s) == IF s # <<>> /\ Head(s) = " " THEN LStrip(Tail(s)) ELSE s

RECURSIVE RStrip(_)
RStrip(s) ==
    IF s # <<>> /\ s[Len(s)] = " " THEN RStrip(SubSeq(s, 1, Len(s) - 1)) ELSE s

\* str.strip()
Strip(s) == RStrip(LStrip(s))

RECURSIVE DigitsValue(_)
DigitsValue(d) ==
    IF d = <<>> THEN 0
    ELSE LET front == SubSeq(d, 1, Len(d) - 1)
         IN  IF d[Len(d)] = "_" THEN DigitsValue(front)
             ELSE DigitsValue(front) * 10 + DigitVal(d[Len(d)])

\* the digits of an int literal: digits, single underscores between digits
IsIntLiteral(d) ==
    /\ d # <<>>
    /\ \A i \in 1..Len(d) :
          \/ IsDigit(d[i])
          \/ /\ d[i] = "_"
             /\ 1 < i /\ i < Len(d)
             /\ IsDigit(d[i - 1]) /\ IsDigit(d[i + 1])

\* int(s): [ok |-> FALSE] stands for ValueError
PyInt(s) ==
    LET w == Strip(s)
        signed == w # <<>> /\ Head(w) \in {"+", "-"}
        d == IF signed THEN Tail(w) ELSE w
    IN  IF IsIntLiteral(d)
        THEN [ok |-> TRUE,
              val |-> IF signed /\ Head(w) = "-" THEN 0 - DigitsValue(d)
                      ELSE DigitsValue(d)]
        ELSE [ok |-> FALSE, val |-> 0]

\* str(n) for n >= 0
RECURSIVE Decimal(_)
Decimal(n) ==
    IF n < 10 THEN <<Digits[n + 1]>>
    ELSE Decimal(n \div 10) \o <<Digits[(n % 10) + 1]>>

S_Default == <<"D", "e", "f", "a", "u", "l", "t">>

ProfilePrefix == <<"P", "r", "o", "f", "i", "l", "e", " ">>

TmpInfix == <<"_", "t", "m", "p", "_">>

\* f"Profile {n}"
ProfileName(n) == ProfilePrefix \o Decimal(n)

-----------------------------------------------------------------------------
(* JSON values, Python dicts, files *)

JStr(s) == [t |-> "str", v |-> s]
JNum(n) == [t |-> "num", v |-> n]
JObj(f) == [t |-> "obj", v |-> f]
JList(q) == [t |-> "list", v |-> q]
JNull == [t |-> "null", v |-> 0]

EmptyDict == <<>>

\* d.get(k, default), d[k] = v on the key -> value function of a dict
Get(f, k, default) == IF k \in DOMAIN f THEN f[k] ELSE default

Put(f, k, v) == [x \in (DOMAIN f) \cup {k} |-> IF x = k THEN v ELSE f[x]]

\* Python truth value of a JSON value (None for an absent key)
Truthy(j) ==
    CASE j.t = "str" -> j.v # <<>>
      [] j.t = "num" -> j.v # 0
      [] j.t = "obj" -> DOMAIN j.v # {}
      [] j.t = "list" -> j.v # <<>>
      [] OTHER -> FALSE

\* the text of a file: the serialisation of a JSON value, or bytes that
\* json.loads rejects
Dumps(j) == [json |-> TRUE, val |-> j]
Garbage == [json |-> FALSE, val |-> JNull]

NoFile == [exists |-> FALSE, text |-> Garbage]
File(text) == [exists |-> TRUE, text |-> text]

\* a node of a directory tree
DirNode(kids) == [t |-> "dir", kids |-> kids, data |-> Garbage]
FileNode(text) == [t |-> "file", kids |-> EmptyDict, data |-> text]

\* read_json(path, default={}): a missing file, unreadable text and a
\* failed parse all give {}; any parsed value is returned as it is
read_json(file) ==
    IF file.exists /\ file.text.json THEN file.text.val ELSE JObj(EmptyDict)

-----------------------------------------------------------------------------
(* Profile locator and slot allocator *)

UnparsableKey == 99999

\* the token int() is applied to: name.split(" ")[1]
SlotToken(nm) == Split(nm, " ")[2]

\* a plausible bug: the lowest free number is handed out (gap filling)
next_profile_folder_name_gapfill(b) ==
    LET used == {PyInt(SlotToken(nm)).val :
                    nm \in {x \in DOMAIN b : /\ b[x].t = "dir"
                                             /\ StartsWith(x, ProfilePrefix)
                                             /\ PyInt(SlotToken(x)).ok}}
        n == CHOOSE k \in 1..(Cardinality(used) + 1) :
                 k \notin used /\ \A j \in 1..(k - 1) : j \in used
    IN  ProfileName(n)

next_profile_folder_name(b) ==
    LET nums == {PyInt(SlotToken(nm)).val :
                    nm \in {x \in DOMAIN b : /\ b[x].t = "dir"
                                             /\ StartsWith(x, ProfilePrefix)
                                             /\ PyInt(SlotToken(x)).ok}}
        max_n == Max(nums \cup {0})
    IN  ProfileName(max_n + 1)

\* meta.get("name") or meta.get("shortcut_name") or folder
DisplayOf(folder, meta) ==
    LET name == Get(meta.v, "name", JNull)
        shortcut == Get(meta.v, "shortcut_name", JNull)
    IN  IF Truthy(name) THEN name
        ELSE IF Truthy(shortcut) THEN shortcut
        ELSE JStr(folder)

\* read_profile_display_names(): the mappings the call can return.  Any
\* exception ends the loop and keeps the entries made so far; the order in
\* which info_cache is walked is the order of the keys in the file, which
\* the model does not keep, so every set of well-formed entries may have
\* been walked before a malformed one.
read_profile_display_names(file) ==
    IF ~file.exists \/ ~file.text.json THEN {EmptyDict}
    ELSE LET data == file.text.val IN
    IF data.t # "obj" THEN {EmptyDict}
    ELSE LET prof == Get(data.v, "profile", JObj(EmptyDict)) IN
    IF prof.t # "obj" THEN {EmptyDict}
    ELSE LET info_cache == Get(prof.v, "info_cache", JObj(EmptyDict)) IN
    IF info_cache.t # "obj" THEN {EmptyDict}
    ELSE LET good == {k \in DOMAIN info_cache.v : info_cache.v[k].t = "obj"} IN
    IF good = DOMAIN info_cache.v
    THEN {[k \in good |-> DisplayOf(k, info_cache.v[k])]}
    ELSE {[k \in S |-> DisplayOf(k, info_cache.v[k])] : S \in SUBSET good}

\* sort_key(t) of list_profiles_with_names, on the folder name
sort_key(folder) ==
    IF folder = S_Default THEN <<0, 0>>
    ELSE LET r == PyInt(SlotToken(folder))
         IN  <<1, IF r.ok THEN r.val ELSE UnparsableKey>>

KeyLess(a, b) == a[1] < b[1] \/ (a[1] = b[1] /\ a[2] < b[2])

\* sorted(results, key=sort_key): the sort is stable, and entries with equal
\* keys keep the order of base.iterdir(), which is arbitrary
RECURSIVE SortedOrders(_)
SortedOrders(S) ==
    IF S = {} THEN {<<>>}
    ELSE LET firsts == {x \in S :
                          \A y \in S : ~KeyLess(sort_key(y[1]), sort_key(x[1]))}
         IN  UNION {{<<x>> \o rest : rest \in SortedOrders(S \ {x})} :
                       x \in firsts}

\* list_profiles_with_names(): the lists the call can return
list_profiles_with_names(b, file) ==
    UNION {SortedOrders({<<nm, Get(name_map, nm, JStr(nm))>> :
                            nm \in {x \in DOMAIN b :
                                      /\ b[x].t = "dir"
                                      /\ \/ x = S_Default
                                         \/ StartsWith(x, ProfilePrefix)}}) :
              name_map \in read_profile_display_names(file)}

-----------------------------------------------------------------------------
(* Values the model draws its inputs from *)

N_Work == <<"W">>
N_Personal == <<"P">>
N_Padded == <<" ", "P", " ">>
N_Blank == <<" ">>

MetaFull(nm) ==
    JObj([name |-> JStr(nm), gaia_name |-> JStr(<<"g">>),
          user_name |-> JStr(<<"u">>), avatar_icon |-> JStr(<<"a">>)])

MetaBare(nm) == JObj([name |-> JStr(nm)])

MetaShortcut == JObj([name |-> JStr(<<>>), shortcut_name |-> JStr(<<"S">>)])

RegistryDoc(info_cache, last_used, recency) ==
    JObj([profile |-> JObj([info_cache |-> JObj(info_cache),
                            last_used |-> last_used,
                            last_active_profiles |-> recency,
                            profiles_created |-> JNum(2)]),
          browser |-> JObj([enabled |-> JNum(1)])])

DocTypical ==
    RegistryDoc((S_Default :> MetaFull(<<"D">>)) @@ (ProfileName(1) :> MetaBare(N_Work)),
                JStr(S_Default),
                JList(<<JStr(S_Default), JStr(ProfileName(1))>>))

\* a recency list with a duplicate, whose head is not last_used
DocDup ==
    RegistryDoc((S_Default :> MetaFull(<<"D">>)),
                JStr(ProfileName(1)),
                JList(<<JStr(S_Default), JStr(ProfileName(1)), JStr(S_Default)>>))

\* last_active_profiles is not a list
DocNoList ==
    RegistryDoc((ProfileName(2) :> MetaFull(N_Personal)), JStr(S_Default), JNum(0))

\* an entry named by its shortcut_name, and an entry that is not an object
DocOdd ==
    RegistryDoc((S_Default :> MetaBare(<<"D">>)) @@ (ProfileName(1) :> MetaShortcut)
                    @@ (ProfileName(2) :> JStr(<<"x">>)),
                JStr(S_Default), JList(<<>>))

DocEmpty == JObj(EmptyDict)

\* valid JSON that is not an object, and an object whose "profile" is none
DocNonObj == JList(<<>>)
DocBadProfile == JObj([profile |-> JNum(5)])

SlotNone == [called |-> FALSE, result |-> <<>>]
ListNone == [called |-> FALSE, result |-> <<>>]

-----------------------------------------------------------------------------
(* The locator and the allocator over every content of the profile root *)

BigSlot == UnparsableKey + 1

FsFileName == ProfileName(MaxSlot + 1)

FsNames ==
    {S_Default} \cup {ProfileName(n) : n \in 1..MaxSlot}
        \cup {ProfileName(BigSlot),
              ProfilePrefix \o <<"x">>,
              ProfileName(1) \o TmpInfix \o Decimal(0),
              FsFileName}

FsNode(nm) == IF nm = FsFileName THEN FileNode(Garbage) ELSE DirNode(EmptyDict)

FsRegistryFiles ==
    {NoFile, File(Garbage), File(Dumps(DocTypical)), File(Dumps(DocOdd)),
     File(Dumps(DocNonObj))}

ImpIdle ==
    [n |-> 0, zip |-> EmptyDict, text |-> <<>>, folder_name |-> <<>>,
     tmpdir |-> <<>>, extract |-> "none", flatten |-> "none",
     placed |-> EmptyDict, desired_name |-> <<>>, prefs |-> "none",
     reg |-> "none"]

CallNone == [n |-> 0]
UwNone == [n |-> 0]

\* a thread that has not been started
ThreadIdle ==
    [kind |-> "none", pc |-> "idle", folder_name |-> <<>>, tmpdir |-> <<>>,
     desired_name |-> <<>>, doc |-> JNull, handle |-> "none",
     before |-> NoFile, ok |-> "none"]

ThreadsNone == [t \in 1..MaxThreads |-> ThreadIdle]

InitFs ==
    /\ base \in {[nm \in S |-> FsNode(nm)] : S \in SUBSET FsNames}
    /\ localState \in FsRegistryFiles
    /\ backups = EmptyDict
    /\ now = 0
    /\ pc = "idle"
    /\ imp = ImpIdle
    /\ slot = SlotNone
    /\ listing = ListNone
    /\ call = CallNone
    /\ uw = UwNone
    /\ threads = ThreadsNone
    /\ stateTmp = NoFile

\* a call of next_profile_folder_name()
FsNextSlot ==
    /\ slot' = [called |-> TRUE, result |-> next_profile_folder_name(base)]
    /\ UNCHANGED <<base, localState, backups, now, pc, imp, listing, call, uw, threads, stateTmp>>

\* a call of list_profiles_with_names()
FsListProfiles ==
    /\ \E r \in list_profiles_with_names(base, localState) :
          listing' = [called |-> TRUE, result |-> r]
    /\ UNCHANGED <<base, localState, backups, now, pc, imp, slot, call, uw, threads, stateTmp>>

\* the browser or the user deletes an entry of the profile root; what the
\* two calls returned before no longer describes the root
FsDelete ==
    /\ \E nm \in DOMAIN base :
          base' = [x \in (DOMAIN base) \ {nm} |-> base[x]]
    /\ slot' = SlotNone
    /\ listing' = ListNone
    /\ UNCHANGED <<localState, backups, now, pc, imp, call, uw, threads, stateTmp>>

NextFs == FsNextSlot \/ FsListProfiles \/ FsDelete

SpecFs == InitFs /\ [][NextFs]_vars

IsDir(b, nm) == nm \in DOMAIN b /\ b[nm].t = "dir"

\* the slot numbers the model's folder names can carry
CandidateNumbers == (1..(MaxSlot + MaxImports + 1)) \cup {BigSlot, BigSlot + 1}

\* the numbers of the "Profile <n>" directories of a profile root
NumberedSlots(b) == {n \in CandidateNumbers : IsDir(b, ProfileName(n))}

\* C1: next_slot returns "Profile N+1", N the largest number of an existing
\* numbered slot (0 when there is none): no existing slot has that number or
\* a larger one, a gap below N is not filled, and no existing folder has the
\* returned name.
C1_NextSlotAboveMax ==
    slot.called =>
        LET N == Max(NumberedSlots(base) \cup {0})
        IN  /\ slot.result = ProfileName(N + 1)
            /\ \A n \in NumberedSlots(base) : PyInt(SlotToken(slot.result)).val > n
            /\ ~IsDir(base, slot.result)

\* a root with "Default", a gap at 1 and a slot 2, for which a name was handed out
C1_Witness ==
    /\ slot.called
    /\ IsDir(base, S_Default)
    /\ ~IsDir(base, ProfileName(1))
    /\ IsDir(base, ProfileName(2))
    /\ ~IsDir(base, ProfileName(3))
    /\ slot.result = ProfileName(3)

IsNumberedName(nm) == \E n \in CandidateNumbers : nm = ProfileName(n)

NumberOfName(nm) == CHOOSE n \in CandidateNumbers : nm = ProfileName(n)

\* the registry's name for a folder, when the registry can be read and has one
HasRegistryName(file, folder) ==
    /\ file.exists /\ file.text.json /\ file.text.val.t = "obj"
    /\ "profile" \in DOMAIN file.text.val.v
    /\ file.text.val.v["profile"].t = "obj"
    /\ "info_cache" \in DOMAIN file.text.val.v["profile"].v
    /\ file.text.val.v["profile"].v["info_cache"].t = "obj"
    /\ folder \in DOMAIN file.text.val.v["profile"].v["info_cache"].v
    /\ file.text.val.v["profile"].v["info_cache"].v[folder].t = "obj"
    /\ \E k \in {"name", "shortcut_name"} :
          /\ k \in DOMAIN file.text.val.v["profile"].v["info_cache"].v[folder].v
          /\ Truthy(file.text.val.v["profile"].v["info_cache"].v[folder].v[k])

RegistryNames(file, folder) ==
    LET meta == file.text.val.v["profile"].v["info_cache"].v[folder].v
    IN  {meta[k] : k \in {x \in {"name", "shortcut_name"} :
                             x \in DOMAIN meta /\ Truthy(meta[x])}}

\* every entry of the registry's info_cache is an object
RegistryWellFormed(file) ==
    \A f \in DOMAIN file.text.val.v["profile"].v["info_cache"].v :
        file.text.val.v["profile"].v["info_cache"].v[f].t = "obj"

\* C10: list_profiles returns "Default" first, then the numbered slots in
\* ascending order of their numbers, then the slots whose number cannot be
\* parsed, whatever the numbers are; each display name is the registry's
\* name of the folder, or the folder's own name when the registry has none.
C10_ListingOrder ==
    listing.called =>
        LET r == listing.result IN
        /\ \A i \in 1..Len(r) : \A j \in (i + 1)..Len(r) :
              /\ r[j][1] # S_Default
              /\ (IsNumberedName(r[i][1]) /\ IsNumberedName(r[j][1]))
                    => NumberOfName(r[i][1]) < NumberOfName(r[j][1])
              /\ ~(/\ r[i][1] # S_Default
                   /\ ~IsNumberedName(r[i][1])
                   /\ IsNumberedName(r[j][1]))
        /\ \A i \in 1..Len(r) :
              IF HasRegistryName(localState, r[i][1])
              THEN \/ r[i][2] \in RegistryNames(localState, r[i][1])
                   \/ ~RegistryWellFormed(localState) /\ r[i][2] = JStr(r[i][1])
              ELSE r[i][2] = JStr(r[i][1])

\* the ordering of C10 with slot numbers below the key given to unparsable names
C10_ListingOrderSmall ==
    ~IsDir(base, ProfileName(BigSlot)) => C10_ListingOrder

-----------------------------------------------------------------------------
(* State patcher: write_json_atomic and update_local_state_register_profile *)

\* write_json_atomic(path, obj): the file afterwards and the value returned.
\* io = "ok": the temp file is written and renamed over the target;
\* otherwise an exception is caught, the target is as before, False is returned
write_json_atomic(file, obj, io) ==
    IF io = "ok" THEN [file |-> File(Dumps(obj)), ret |-> TRUE]
    ELSE [file |-> file, ret |-> FALSE]

\* the dict after d.setdefault(k, default)
SetDefault(f, k, default) == IF k \in DOMAIN f THEN f ELSE Put(f, k, default)

\* a plausible bug: the entry is built from scratch, not from the stored one
RegisterMeta_fresh(info_cache, folder_name, display_name) ==
    [name |-> JStr(display_name), gaia_name |-> JStr(<<>>),
     user_name |-> JStr(<<>>)]

\* meta = info_cache.get(folder_name, {}); meta["name"] = display_name;
\* meta.setdefault("gaia_name", ""); meta.setdefault("user_name", "")
RegisterMeta(info_cache, folder_name, display_name) ==
    LET meta == Get(info_cache, folder_name, JObj(EmptyDict)).v
    IN  SetDefault(SetDefault(Put(meta, "name", JStr(display_name)),
                              "gaia_name", JStr(<<>>)),
                   "user_name", JStr(<<>>))

\* a plausible bug: the folder is put in front without removing it first
RecencyList_nodedup(lst, folder_name) ==
    <<JStr(folder_name)>> \o (IF lst.t = "list" THEN lst.v ELSE <<>>)

\* if not isinstance(lst, list): lst = []
\* lst = [x for x in lst if x != folder_name]; lst.insert(0, folder_name)
RecencyList(lst, folder_name) ==
    <<JStr(folder_name)>>
        \o SelectSeq(IF lst.t = "list" THEN lst.v ELSE <<>>,
                     LAMBDA x : x # JStr(folder_name))

\* a plausible bug: last_used is left as it was when it is already set
RegisterLastUsed_keep(prof, folder_name) ==
    Get(prof, "last_used", JStr(folder_name))

\* prof["last_used"] = folder_name
RegisterLastUsed(prof, folder_name) == JStr(folder_name)

\* lines 213-221: whether an AttributeError or TypeError leaves the function
\* (setdefault / get / item assignment on a value that is not a dict)
RegisterRaises(data, folder_name) ==
    \/ data.t # "obj"
    \/ LET prof == Get(data.v, "profile", JObj(EmptyDict)) IN
       \/ prof.t # "obj"
       \/ LET info_cache == Get(prof.v, "info_cache", JObj(EmptyDict)) IN
          \/ info_cache.t # "obj"
          \/ Get(info_cache.v, folder_name, JObj(EmptyDict)).t # "obj"

\* lines 213-232: the document handed to write_json_atomic
RegisterDoc(data, folder_name, display_name) ==
    LET prof == Get(data.v, "profile", JObj(EmptyDict)).v
        info_cache == Get(prof, "info_cache", JObj(EmptyDict)).v
        meta == RegisterMeta(info_cache, folder_name, display_name)
        lst == RecencyList(Get(prof, "last_active_profiles", JList(<<>>)),
                           folder_name)
        prof1 == Put(prof, "info_cache",
                     JObj(Put(info_cache, folder_name, JObj(meta))))
        prof2 == Put(prof1, "last_used", RegisterLastUsed(prof, folder_name))
        prof3 == Put(prof2, "last_active_profiles", JList(lst))
    IN  JObj(Put(data.v, "profile", JObj(prof3)))

\* update_local_state_register_profile(folder_name, display_name): the
\* files afterwards, and how the call ended.  bak = "ok": shutil.copy2 of
\* the backup succeeds (its failure is swallowed); io: see write_json_atomic
update_local_state_register_profile(file, baks, ts, folder_name, display_name, bak, io) ==
    LET baks1 == IF file.exists /\ bak = "ok" THEN Put(baks, ts, file.text)
                 ELSE baks
        data == read_json(file)
    IN  IF RegisterRaises(data, folder_name)
        THEN [file |-> file, backups |-> baks1, raised |-> TRUE, wrote |-> FALSE]
        ELSE LET w == write_json_atomic(
                          file, RegisterDoc(data, folder_name, display_name), io)
             IN  [file |-> w.file, backups |-> baks1, raised |-> FALSE,
                  wrote |-> w.ret]

-----------------------------------------------------------------------------
(* register_profile over every registry file *)

RegFolders == {S_Default, ProfileName(1), ProfileName(2)}

RegNames == {N_Work, N_Personal}

RegRegistryFiles ==
    {NoFile, File(Garbage)}
        \cup {File(Dumps(d)) : d \in {DocTypical, DocDup, DocNoList, DocOdd,
                                      DocEmpty, DocNonObj, DocBadProfile}}

NoCall == [folder |-> <<>>, name |-> <<>>, wrote |-> FALSE]

InitReg ==
    /\ base = EmptyDict
    /\ localState \in RegRegistryFiles
    /\ backups = EmptyDict
    /\ now = 0
    /\ pc = "idle"
    /\ imp = ImpIdle
    /\ slot = SlotNone
    /\ listing = ListNone
    /\ call = [n |-> 0, init |-> localState, pre |-> localState,
               folder |-> <<>>, name |-> <<>>, bak |-> "ok", io |-> "ok",
               raised |-> FALSE, wrote |-> FALSE, prev |-> NoCall,
               writes |-> <<>>]
    /\ uw = UwNone
    /\ threads = ThreadsNone
    /\ stateTmp = NoFile

\* one call of update_local_state_register_profile; writes keeps the folders
\* of the last two calls that wrote the registry
RegCall ==
    /\ call.n < MaxCalls
    /\ \E folder_name \in RegFolders, display_name \in RegNames,
          bak \in {"ok", "fail"}, io \in {"ok", "fail"} :
          LET r == update_local_state_register_profile(
                       localState, backups, now, folder_name, display_name,
                       bak, io)
          IN  /\ localState' = r.file
              /\ backups' = r.backups
              /\ call' = [n |-> call.n + 1, init |-> call.init,
                          pre |-> localState,
                          folder |-> folder_name, name |-> display_name,
                          bak |-> bak, io |-> io,
                          raised |-> r.raised, wrote |-> r.wrote,
                          prev |-> [folder |-> call.folder, name |-> call.name,
                                    wrote |-> call.wrote],
                          writes |-> IF r.wrote
                                     THEN <<folder_name>>
                                              \o SubSeq(call.writes, 1,
                                                        IF call.writes = <<>>
                                                        THEN 0 ELSE 1)
                                     ELSE call.writes]
    /\ UNCHANGED <<base, now, pc, imp, slot, listing, uw, threads, stateTmp>>

\* a second passes
Tick ==
    /\ now < MaxClock
    /\ now' = now + 1
    /\ UNCHANGED <<base, localState, backups, pc, imp, slot, listing, call, uw, threads, stateTmp>>

NextReg == RegCall \/ Tick

SpecReg == InitReg /\ [][NextReg]_vars

\* the parts of a registry file that holds a registry document
ProfileOf(file) == file.text.val.v["profile"].v
InfoCacheOf(file) == ProfileOf(file)["info_cache"].v
RecencyOf(file) == ProfileOf(file)["last_active_profiles"].v

NoDuplicates(q) == \A i, j \in 1..Len(q) : i # j => q[i] # q[j]

\* the recency list of a file as register_profile finds it
RecencyFound(file) ==
    IF /\ file.exists /\ file.text.json /\ file.text.val.t = "obj"
       /\ "profile" \in DOMAIN file.text.val.v
       /\ file.text.val.v["profile"].t = "obj"
       /\ "last_active_profiles" \in DOMAIN ProfileOf(file)
       /\ ProfileOf(file)["last_active_profiles"].t = "list"
    THEN RecencyOf(file)
    ELSE <<>>

\* C3: on a registry whose recency list had no duplicates at the start, after
\* any sequence of register_profile calls of which at least one wrote the
\* registry, last_active_profiles has no duplicates, its head is last_used and
\* both are the folder of the most recent call that wrote; when the write
\* before that one was for another folder A, the list starts [B, A].
C3_RecencyHead ==
    (call.n > 0 /\ call.writes # <<>> /\ NoDuplicates(RecencyFound(call.init))) =>
        /\ NoDuplicates(RecencyOf(localState))
        /\ RecencyOf(localState)[1] = ProfileOf(localState)["last_used"]
        /\ ProfileOf(localState)["last_used"] = JStr(call.writes[1])
        /\ (Len(call.writes) = 2 /\ call.writes[2] # call.writes[1]) =>
              /\ Len(RecencyOf(localState)) >= 2
              /\ RecencyOf(localState)[2] = JStr(call.writes[2])

\* A then B, both written, on a registry that listed B before A
C3_Witness ==
    /\ call.n = 2 /\ Len(call.writes) = 2
    /\ call.init = File(Dumps(DocTypical))
    /\ call.writes = <<ProfileName(1), S_Default>>
    /\ RecencyOf(localState) = <<JStr(ProfileName(1)), JStr(S_Default)>>

\* C4: a call of register_profile that repeats the (folder, display name) of
\* the call before it, which wrote the registry, leaves the registry file as
\* that call left it, recency list included.
C4_Idempotent ==
    (/\ call.n >= 2 /\ call.prev.wrote
     /\ call.prev.folder = call.folder /\ call.prev.name = call.name) =>
        localState = call.pre

\* the repeat wrote the registry again, on a registry that listed the folder twice
C4_Witness ==
    /\ call.n = 2 /\ call.prev.wrote /\ call.wrote
    /\ call.prev.folder = call.folder /\ call.prev.name = call.name
    /\ call.init = File(Dumps(DocDup))
    /\ call.folder = S_Default

\* the registry file cannot be used as a registry document: it is not JSON,
\* or it is JSON but no object
CorruptRegistry(file) ==
    file.exists /\ (~file.text.json \/ file.text.val.t # "obj")

FreshRegistry(folder_name, display_name) ==
    JObj([profile |->
            JObj([info_cache |->
                     JObj(folder_name :>
                            JObj([name |-> JStr(display_name),
                                  gaia_name |-> JStr(<<>>),
                                  user_name |-> JStr(<<>>)])),
                  last_used |-> JStr(folder_name),
                  last_active_profiles |-> JList(<<JStr(folder_name)>>)])])

\* C5: on a corrupt registry file, with the disk accepting the backup and the
\* write, register_profile does not fail, leaves a fresh registry holding
\* only the registered folder, and a backup with the corrupt content exists.
C5_CorruptRegistry ==
    (call.n > 0 /\ CorruptRegistry(call.pre) /\ call.bak = "ok" /\ call.io = "ok") =>
        /\ ~call.raised
        /\ localState = File(Dumps(FreshRegistry(call.folder, call.name)))
        /\ \E ts \in DOMAIN backups : backups[ts] = call.pre.text

\* the same for a registry file that json.loads rejects
C5_UnparsableRegistry ==
    (call.n > 0 /\ call.pre.exists /\ ~call.pre.text.json) => C5_CorruptRegistry

\* the document register_profile starts from: the parsed file when it holds
\* an object, the empty document otherwise
DocBefore(file) ==
    IF file.exists /\ file.text.json /\ file.text.val.t = "obj"
    THEN file.text.val.v ELSE EmptyDict

SubDict(f, k) == IF k \in DOMAIN f THEN f[k].v ELSE EmptyDict

\* f and g agree outside the keys K
SameExcept(f, g, K) ==
    /\ (DOMAIN f) \ K = (DOMAIN g) \ K
    /\ \A k \in (DOMAIN f) \ K : f[k] = g[k]

\* C9: a call of register_profile(F, name) that writes the registry changes
\* only info_cache[F].name, the unset gaia_name / user_name of F (to ""),
\* last_used and the recency list: unknown fields of the document and of
\* "profile", the entries of the other folders and the fields already set on
\* F's entry are as before.
C9_Frame ==
    (call.n > 0 /\ call.wrote) =>
        LET old == DocBefore(call.pre)
            new == localState.text.val.v
            oldProf == SubDict(old, "profile")
            newProf == new["profile"].v
            oldCache == SubDict(oldProf, "info_cache")
            newCache == newProf["info_cache"].v
            oldMeta == SubDict(oldCache, call.folder)
            newMeta == newCache[call.folder].v
        IN  /\ SameExcept(old, new, {"profile"})
            /\ SameExcept(oldProf, newProf,
                          {"info_cache", "last_used", "last_active_profiles"})
            /\ SameExcept(oldCache, newCache, {call.folder})
            /\ DOMAIN newMeta = (DOMAIN oldMeta) \cup {"name", "gaia_name", "user_name"}
            /\ \A k \in (DOMAIN oldMeta) \ {"name"} : newMeta[k] = oldMeta[k]
            /\ \A k \in {"gaia_name", "user_name"} \ DOMAIN oldMeta :
                  newMeta[k] = JStr(<<>>)
            /\ newMeta["name"] = JStr(call.name)

\* an existing entry with identity fields, beside another folder's entry and
\* unknown fields, was renamed
C9_Witness ==
    /\ call.n > 0 /\ call.wrote
    /\ call.pre = File(Dumps(DocTypical))
    /\ call.folder = S_Default /\ call.name = N_Work
    /\ InfoCacheOf(localState)[S_Default].v["gaia_name"] = JStr(<<"g">>)

-----------------------------------------------------------------------------
(* Archiver: extraction and unwrap *)

Restrict(f, S) == [x \in S |-> f[x]]

\* ZipFile.extractall(dest): the entries of the archive are written into
\* dest, beside and over what dest holds
RECURSIVE Merge(_, _)
Merge(dest, arch) ==
    [k \in (DOMAIN dest) \cup (DOMAIN arch) |->
        IF k \notin DOMAIN arch THEN dest[k]
        ELSE IF k \in DOMAIN dest /\ dest[k].t = "dir" /\ arch[k].t = "dir"
        THEN DirNode(Merge(dest[k].kids, arch[k].kids))
        ELSE arch[k]]

\* an entry of the archive meets an entry of the other kind in dest
RECURSIVE Clash(_, _)
Clash(dest, arch) ==
    \E k \in (DOMAIN dest) \cap (DOMAIN arch) :
        \/ dest[k].t # arch[k].t
        \/ dest[k].t = "dir" /\ Clash(dest[k].kids, arch[k].kids)

\* unzip_to_folder(zip_path, dest_folder): the contents dest can have
\* afterwards.  A failure (unreadable archive, disk error, a clash) raises
\* with any part of the top-level entries extracted
unzip_to_folder(dest, arch, io) ==
    IF io = "ok" /\ ~Clash(dest, arch)
    THEN {[kids |-> Merge(dest, arch), raised |-> FALSE]}
    ELSE {[kids |-> Merge(dest, Restrict(arch, S)), raised |-> TRUE] :
             S \in {X \in SUBSET DOMAIN arch :
                       X # DOMAIN arch /\ ~Clash(dest, Restrict(arch, X))}}

\* flatten_if_wrapped(root): the contents root can have afterwards.
\* shutil.move(inner/c, root/c) renames, except for a child c named like
\* inner: root/c is then the directory inner itself, the target becomes
\* inner/c, which exists, and shutil.Error is raised.  The exception ends the
\* loop, is logged and swallowed; the children moved before it (any of them,
\* inner.iterdir() has no order) stay moved, and inner is not removed.
flatten_if_wrapped(root) ==
    IF Cardinality(DOMAIN root) = 1
       /\ \A k \in DOMAIN root : root[k].t = "dir"
    THEN LET w == CHOOSE k \in DOMAIN root : TRUE
             inner == root[w].kids
         IN  IF w \notin DOMAIN inner
             THEN {[kids |-> inner, failed |-> FALSE]}
             ELSE {[kids |-> [k \in M \cup {w} |->
                                IF k = w
                                THEN DirNode(Restrict(inner, (DOMAIN inner) \ M))
                                ELSE inner[k]],
                    failed |-> TRUE] :
                      M \in SUBSET ((DOMAIN inner) \ {w})}
    ELSE {[kids |-> root, failed |-> FALSE]}

-----------------------------------------------------------------------------
(* Unwrap over every small profile tree: the same tree archived directly and
   archived inside one wrapping directory *)

UwNames == {"Preferences", "Bookmarks", "Cache"}

UwLeaf == FileNode(Garbage)

UwSubdirs == {DirNode([k \in S |-> UwLeaf]) : S \in SUBSET UwNames}

\* the trees of depth two over UwNames
UwTrees ==
    UNION {[S -> {UwLeaf} \cup UwSubdirs] : S \in SUBSET UwNames}

UwStart == [stage |-> "archive", kids |-> EmptyDict, failed |-> FALSE]

InitUnwrap ==
    /\ base = EmptyDict
    /\ localState = NoFile
    /\ backups = EmptyDict
    /\ now = 0
    /\ pc = "idle"
    /\ imp = ImpIdle
    /\ slot = SlotNone
    /\ listing = ListNone
    /\ call = CallNone
    /\ threads = ThreadsNone
    /\ stateTmp = NoFile
    /\ \E T \in UwTrees, W \in UwNames :
          uw = [T |-> T, W |-> W, direct |-> UwStart, wrapped |-> UwStart]

\* the archive that holds T directly is extracted into an empty directory
UwExtractDirect ==
    /\ uw.direct.stage = "archive"
    /\ \E r \in unzip_to_folder(EmptyDict, uw.T, "ok") :
          uw' = [uw EXCEPT !.direct = [stage |-> "extracted", kids |-> r.kids,
                                       failed |-> FALSE]]
    /\ UNCHANGED <<base, localState, backups, now, pc, imp, slot, listing, call, threads, stateTmp>>

\* the archive that holds T inside the directory W is extracted
UwExtractWrapped ==
    /\ uw.wrapped.stage = "archive"
    /\ \E r \in unzip_to_folder(EmptyDict, (uw.W :> DirNode(uw.T)), "ok") :
          uw' = [uw EXCEPT !.wrapped = [stage |-> "extracted", kids |-> r.kids,
                                        failed |-> FALSE]]
    /\ UNCHANGED <<base, localState, backups, now, pc, imp, slot, listing, call, threads, stateTmp>>

UwFlattenDirect ==
    /\ uw.direct.stage = "extracted"
    /\ \E r \in flatten_if_wrapped(uw.direct.kids) :
          uw' = [uw EXCEPT !.direct = [stage |-> "done", kids |-> r.kids,
                                       failed |-> r.failed]]
    /\ UNCHANGED <<base, localState, backups, now, pc, imp, slot, listing, call, threads, stateTmp>>

UwFlattenWrapped ==
    /\ uw.wrapped.stage = "extracted"
    /\ \E r \in flatten_if_wrapped(uw.wrapped.kids) :
          uw' = [uw EXCEPT !.wrapped = [stage |-> "done", kids |-> r.kids,
                                        failed |-> r.failed]]
    /\ UNCHANGED <<base, localState, backups, now, pc, imp, slot, listing, call, threads, stateTmp>>

NextUnwrap ==
    UwExtractDirect \/ UwExtractWrapped \/ UwFlattenDirect \/ UwFlattenWrapped

SpecUnwrap == InitUnwrap /\ [][NextUnwrap]_vars

SingleDirRoot(T) ==
    Cardinality(DOMAIN T) = 1 /\ \A k \in DOMAIN T : T[k].t = "dir"

\* C6: for every tree T and wrapper name, extracting and unwrapping the
\* archive that holds T inside the wrapper gives the same tree as extracting
\* and unwrapping the archive that holds T directly.
C6_UnwrapEquivalence ==
    (uw.direct.stage = "done" /\ uw.wrapped.stage = "done") =>
        uw.wrapped.kids = uw.direct.kids

\* the same for trees whose root is not one single directory and that have
\* no child named like the wrapper: both give T
C6_UnwrapPlainTrees ==
    (/\ uw.direct.stage = "done" /\ uw.wrapped.stage = "done"
     /\ ~SingleDirRoot(uw.T) /\ uw.W \notin DOMAIN uw.T) =>
        /\ uw.wrapped.kids = uw.T
        /\ uw.direct.kids = uw.T

\* a child named like the wrapper: the wrapped archive never unwraps to T
C6_WrapperNameClash ==
    (uw.wrapped.stage = "done" /\ uw.W \in DOMAIN uw.T) =>
        uw.wrapped.failed /\ uw.wrapped.kids # uw.T

-----------------------------------------------------------------------------
(* Preference document of a profile directory *)

DefaultAvatarIndex == 26

\* the file at profile_dir / "Preferences"; a directory of that name exists
\* but cannot be read as text
PrefsFile(kids) ==
    IF "Preferences" \in DOMAIN kids /\ kids["Preferences"].t = "file"
    THEN File(kids["Preferences"].data)
    ELSE NoFile

\* try_get_profile_name_from_preferences(profile_dir): [found, name];
\* every exception gives None
try_get_profile_name_from_preferences(kids) ==
    LET file == PrefsFile(kids)
        none == [found |-> FALSE, name |-> <<>>]
    IN  IF ~file.exists \/ ~file.text.json THEN none
        ELSE LET prefs == file.text.val IN
        IF prefs.t # "obj" THEN none
        ELSE LET prof == Get(prefs.v, "profile", JObj(EmptyDict)) IN
        IF prof.t # "obj" THEN none
        ELSE LET name == Get(prof.v, "name", JNull) IN
        IF name.t = "str" /\ Strip(name.v) # <<>>
        THEN [found |-> TRUE, name |-> Strip(name.v)]
        ELSE none

\* a plausible bug: the name is returned as stored, not stripped
ResolveName_unstripped(text, kids, folder_name) ==
    IF Strip(text) # <<>> THEN Strip(text)
    ELSE LET file == PrefsFile(kids) IN
         IF try_get_profile_name_from_preferences(kids).found
         THEN file.text.val.v["profile"].v["name"].v
         ELSE folder_name

\* lines 529-531: desired_name = entry.get().strip(); if not desired_name:
\* desired_name = try_get_profile_name_from_preferences(dest) or folder_name
ResolveName(text, kids, folder_name) ==
    IF Strip(text) # <<>> THEN Strip(text)
    ELSE LET got == try_get_profile_name_from_preferences(kids) IN
         IF got.found THEN got.name ELSE folder_name

\* ensure_preferences_display_name(profile_dir, display_name): the contents
\* of the profile directory afterwards and how the call ended: "same" (the
\* name was already stored), "written", or "failed" (an exception or a failed
\* write, logged)
ensure_preferences_display_name(kids, display_name, io) ==
    LET prefs == read_json(PrefsFile(kids))
        unchanged(how) == [kids |-> kids, how |-> how]
    IN  IF prefs.t # "obj" THEN unchanged("failed")
        ELSE LET prof == Get(prefs.v, "profile", JObj(EmptyDict)) IN
        IF prof.t # "obj" THEN unchanged("failed")
        ELSE IF Get(prof.v, "name", JNull) = JStr(display_name)
        THEN unchanged("same")
        ELSE LET prof1 == SetDefault(Put(prof.v, "name", JStr(display_name)),
                                     "avatar_index", JNum(DefaultAvatarIndex))
                 doc == JObj(Put(prefs.v, "profile", JObj(prof1)))
                 isdir == "Preferences" \in DOMAIN kids
                              /\ kids["Preferences"].t = "dir"
                 w == write_json_atomic(PrefsFile(kids), doc,
                                        IF isdir THEN "fail" ELSE io)
             IN  IF w.ret
                 THEN [kids |-> Put(kids, "Preferences", FileNode(w.file.text)),
                       how |-> "written"]
                 ELSE unchanged("failed")

-----------------------------------------------------------------------------
(* The import thread: App._do_import *)

\* time.strftime("%Y%m%d_%H%M%S") at second t of the modelled day
Stamp(t) == Decimal(20261106) \o <<"_">> \o Decimal(100000 + t)

PrefsNamed(nm) == FileNode(Dumps(JObj([profile |-> JObj([name |-> JStr(nm)]),
                                       session |-> JNum(1)])))

\* Preferences without a name field
PrefsUnnamed == FileNode(Dumps(JObj([session |-> JNum(1)])))

Bookmarks == FileNode(Garbage)

\* the archives offered to the import: the file trees they hold
Archives ==
    {[Bookmarks |-> Bookmarks, Preferences |-> PrefsUnnamed],
     [Bookmarks |-> Bookmarks, Preferences |-> PrefsNamed(N_Padded)],
     [Preferences |-> PrefsNamed(N_Blank)],
     [Preferences |-> FileNode(Dumps(JList(<<>>)))],
     [wrap |-> DirNode([Bookmarks |-> Bookmarks,
                        Preferences |-> PrefsNamed(N_Personal)])],
     [wrap |-> DirNode([Preferences |-> PrefsNamed(N_Personal),
                        wrap |-> Bookmarks])]}

\* what the display-name entry field can hold
EntryTexts == {<<>>, N_Work, <<" ", "W">>, N_Blank}

InitBases ==
    {(S_Default :> DirNode(EmptyDict)),
     (S_Default :> DirNode(EmptyDict)) @@ (ProfileName(2) :> DirNode(EmptyDict))}

InitRegistryFiles == {NoFile, File(Dumps(DocTypical)), File(Dumps(DocNonObj))}

Init ==
    /\ base \in InitBases
    /\ localState \in InitRegistryFiles
    /\ backups = EmptyDict
    /\ now = 0
    /\ pc = "idle"
    /\ imp = ImpIdle
    /\ slot = SlotNone
    /\ listing = ListNone
    /\ call = CallNone
    /\ uw = UwNone
    /\ threads = ThreadsNone
    /\ stateTmp = NoFile

\* this specification follows imports started one after the other: a click
\* on Import while no import thread is running.  run_import itself has no
\* such condition; threads started while another runs are in SpecThreads
Resting == pc \in {"idle", "rejected", "failed", "done"}

\* lines 499-502: the chosen archive does not exist
ImportMissingArchive ==
    /\ Resting /\ imp.n < MaxImports
    /\ imp' = [ImpIdle EXCEPT !.n = imp.n + 1]
    /\ pc' = "rejected"
    /\ UNCHANGED <<base, localState, backups, now, slot, listing, call, uw, threads, stateTmp>>

\* lines 499-519: the slot is chosen and the temporary directory made
ImportStart ==
    /\ Resting /\ imp.n < MaxImports
    /\ \E zip \in Archives, text \in EntryTexts :
          LET folder_name == next_profile_folder_name(base)
              tmpdir == folder_name \o TmpInfix \o Stamp(now)
          IN  /\ imp' = [ImpIdle EXCEPT !.n = imp.n + 1, !.zip = zip,
                                        !.text = text,
                                        !.folder_name = folder_name,
                                        !.tmpdir = tmpdir]
              /\ base' = IF tmpdir \in DOMAIN base THEN base
                         ELSE Put(base, tmpdir, DirNode(EmptyDict))
    /\ pc' = "extracting"
    /\ UNCHANGED <<localState, backups, now, slot, listing, call, uw, threads, stateTmp>>

\* line 522: unzip_to_folder(zip_in, tmpdir); an exception reaches the
\* handler of lines 555-557 and ends the import
ImportExtract ==
    /\ pc = "extracting"
    /\ \E io \in {"ok", "fail"} :
          \E r \in unzip_to_folder(base[imp.tmpdir].kids, imp.zip, io) :
              /\ base' = Put(base, imp.tmpdir, DirNode(r.kids))
              /\ imp' = [imp EXCEPT !.extract = IF r.raised THEN "raised" ELSE "ok"]
              /\ pc' = IF r.raised THEN "failed" ELSE "unwrapping"
    /\ UNCHANGED <<localState, backups, now, slot, listing, call, uw, threads, stateTmp>>

\* line 523: flatten_if_wrapped(tmpdir, self.log); it never raises
ImportFlatten ==
    /\ pc = "unwrapping"
    /\ \E r \in flatten_if_wrapped(base[imp.tmpdir].kids) :
          /\ base' = Put(base, imp.tmpdir, DirNode(r.kids))
          /\ imp' = [imp EXCEPT !.flatten = IF r.failed THEN "failed" ELSE "ok"]
    /\ pc' = "placing"
    /\ UNCHANGED <<localState, backups, now, slot, listing, call, uw, threads, stateTmp>>

\* the name src as the key of an entry inside a profile directory, whose
\* entries are keyed by strings
EntryKey(src) == ToString(src)

\* shutil.move(tmpdir, dest): a rename when dest does not exist; into dest
\* when dest is a directory; an error when dest is a file or holds the name
MoveRaises(b, src, dst) ==
    /\ dst \in DOMAIN b
    /\ b[dst].t = "file" \/ EntryKey(src) \in DOMAIN b[dst].kids

Move(b, src, dst) ==
    LET rest == Restrict(b, (DOMAIN b) \ {src})
    IN  IF dst \notin DOMAIN b THEN Put(rest, dst, b[src])
        ELSE Put(rest, dst, DirNode(Put(b[dst].kids, EntryKey(src), b[src])))

\* line 526
ImportPlace ==
    /\ pc = "placing"
    /\ IF MoveRaises(base, imp.tmpdir, imp.folder_name)
       THEN /\ pc' = "failed"
            /\ UNCHANGED <<base, imp>>
       ELSE /\ pc' = "placed"
            /\ base' = Move(base, imp.tmpdir, imp.folder_name)
            /\ imp' = [imp EXCEPT !.placed = base[imp.tmpdir].kids]
    /\ UNCHANGED <<localState, backups, now, slot, listing, call, uw, threads, stateTmp>>

\* lines 529-534: the display name is resolved and stamped into Preferences
ImportStampPrefs ==
    /\ pc = "placed"
    /\ \E io \in {"ok", "fail"} :
          LET dest == base[imp.folder_name].kids
              desired_name == ResolveName(imp.text, dest, imp.folder_name)
              r == ensure_preferences_display_name(dest, desired_name, io)
          IN  /\ base' = Put(base, imp.folder_name, DirNode(r.kids))
              /\ imp' = [imp EXCEPT !.desired_name = desired_name,
                                    !.prefs = r.how]
    /\ pc' = "prefs_patched"
    /\ UNCHANGED <<localState, backups, now, slot, listing, call, uw, threads, stateTmp>>

\* line 537: the registry is patched; an exception of the call reaches the
\* handler of lines 555-557
ImportRegister ==
    /\ pc = "prefs_patched"
    /\ \E bak \in {"ok", "fail"}, io \in {"ok", "fail"} :
          LET r == update_local_state_register_profile(
                       localState, backups, now, imp.folder_name,
                       imp.desired_name, bak, io)
          IN  /\ localState' = r.file
              /\ backups' = r.backups
              /\ imp' = [imp EXCEPT !.reg = IF r.raised THEN "raised"
                                            ELSE IF r.wrote THEN "wrote"
                                            ELSE "writefail"]
              /\ pc' = IF r.raised THEN "failed" ELSE "registry_patched"
    /\ UNCHANGED <<base, now, slot, listing, call, uw, threads, stateTmp>>

\* lines 539-553: ownership, "Hoàn tất import!", the success dialog, launch
ImportFinish ==
    /\ pc = "registry_patched"
    /\ pc' = "done"
    /\ UNCHANGED <<base, localState, backups, now, imp, slot, listing, call, uw, threads, stateTmp>>

Next ==
    \/ ImportMissingArchive
    \/ ImportStart
    \/ ImportExtract
    \/ ImportFlatten
    \/ ImportPlace
    \/ ImportStampPrefs
    \/ ImportRegister
    \/ ImportFinish
    \/ Tick

Spec == Init /\ [][Next]_vars

\* the profile.name stored in the Preferences file of a directory, as a JSON
\* value; JNull when the file or the field is missing or cannot be read
StoredPrefsName(kids) ==
    LET file == PrefsFile(kids) IN
    IF /\ file.exists /\ file.text.json /\ file.text.val.t = "obj"
       /\ "profile" \in DOMAIN file.text.val.v
       /\ file.text.val.v["profile"].t = "obj"
       /\ "name" \in DOMAIN file.text.val.v["profile"].v
    THEN file.text.val.v["profile"].v["name"]
    ELSE JNull

\* the registry's name of a folder, as a JSON value
StoredRegistryName(file, folder) ==
    IF /\ file.exists /\ file.text.json /\ file.text.val.t = "obj"
       /\ "profile" \in DOMAIN file.text.val.v
       /\ "info_cache" \in DOMAIN ProfileOf(file)
       /\ folder \in DOMAIN InfoCacheOf(file)
       /\ "name" \in DOMAIN InfoCacheOf(file)[folder].v
    THEN InfoCacheOf(file)[folder].v["name"]
    ELSE JNull

\* the import ended with the success dialog of line 550
ImportReportedSuccess == pc = "done"

\* it did, and both documents were written (or already held the name)
ImportSucceeded ==
    /\ ImportReportedSuccess
    /\ imp.prefs \in {"written", "same"}
    /\ imp.reg = "wrote"

\* the tree of the profile an archive holds, below its wrapping directory if
\* it has one
ArchivedProfile(zip) ==
    IF SingleDirRoot(zip) THEN zip[CHOOSE k \in DOMAIN zip : TRUE].kids ELSE zip

\* C2: a failure of the extraction or of the unwrap aborts the import: it
\* goes no further than the temporary directory, and no directory exists
\* under the final name.
C2_PlacedOnlyAfterUnwrap ==
    (imp.extract = "raised" \/ imp.flatten = "failed") =>
        /\ pc \notin {"placed", "prefs_patched", "registry_patched", "done"}
        /\ ~IsDir(base, imp.folder_name)

\* the same for the extraction alone
C2_ExtractFailureAborts ==
    imp.extract = "raised" => (pc = "failed" /\ ~IsDir(base, imp.folder_name))

C8_PostPlacementNonFatal ==
    (/\ pc \in {"failed", "done"}
     /\ imp.prefs # "none"
     /\ imp.prefs = "failed" \/ imp.reg \in {"writefail", "raised"}) =>
        /\ pc = "done"
        /\ IsDir(base, imp.folder_name)
        /\ imp.reg # "none"
        /\ imp.prefs = "written" =>
              StoredPrefsName(base[imp.folder_name].kids) = JStr(imp.desired_name)
        /\ imp.reg = "wrote" =>
              StoredRegistryName(localState, imp.folder_name) = JStr(imp.desired_name)

\* the same when the registration fails by its write only
C8_WriteFailureNonFatal ==
    imp.reg # "raised" => C8_PostPlacementNonFatal

-----------------------------------------------------------------------------
(* The threads of the window: every click on "Export (Backup)" or
   "Import (Restore)" starts a daemon thread (run_export, run_import); the
   threads share the User Data directory, the registry file and its ".tmp"
   sibling.  Each step below is one call of _do_import that touches the file
   system; write_json_atomic on the registry is taken apart into the opening
   of the temporary file, the writing of the text and the rename. *)

Threads == 1..MaxThreads

\* the text of a file that was opened for writing and not written yet
Truncated == [json |-> FALSE, val |-> JStr(<<>>)]

\* the archive the entry field names
ThArchive == [Bookmarks |-> Bookmarks, Preferences |-> PrefsNamed(N_Personal)]

\* what the display-name field holds when a thread reads it
ThEntryTexts == {N_Work, <<>>}

InitThreads ==
    /\ base = (S_Default :> DirNode(EmptyDict))
    /\ localState \in {NoFile, File(Dumps(DocTypical))}
    /\ backups = EmptyDict
    /\ now = 0
    /\ pc = "idle"
    /\ imp = ImpIdle
    /\ slot = SlotNone
    /\ listing = ListNone
    /\ call = CallNone
    /\ uw = UwNone
    /\ threads = ThreadsNone
    /\ stateTmp = NoFile

\* thread t moves on: its record becomes r, the others keep theirs
ThreadStep(t, r) == threads' = [threads EXCEPT ![t] = r]

\* lines 452-454: run_export starts a thread on _do_export
RunExport(t) ==
    /\ threads[t].pc = "idle"
    /\ ThreadStep(t, [threads[t] EXCEPT !.kind = "export", !.pc = "zipping"])
    /\ UNCHANGED <<base, localState, backups, now, pc, imp, slot, listing,
                   call, uw, stateTmp>>

\* lines 460-491: the export reads the profile and writes the archive, which
\* is outside the User Data directory
ExportZip(t) ==
    /\ threads[t].pc = "zipping"
    /\ ThreadStep(t, [threads[t] EXCEPT !.pc = "done"])
    /\ UNCHANGED <<base, localState, backups, now, pc, imp, slot, listing,
                   call, uw, stateTmp>>

\* lines 456-458: run_import starts a thread on _do_import
RunImport(t) ==
    /\ threads[t].pc = "idle"
    /\ ThreadStep(t, [threads[t] EXCEPT !.kind = "import", !.pc = "choosing"])
    /\ UNCHANGED <<base, localState, backups, now, pc, imp, slot, listing,
                   call, uw, stateTmp>>

\* lines 511-512: folder_name = next_profile_folder_name()
ThChooseSlot(t) ==
    /\ threads[t].pc = "choosing"
    /\ ThreadStep(t, [threads[t] EXCEPT
                         !.folder_name = next_profile_folder_name(base),
                         !.pc = "mktmp"])
    /\ UNCHANGED <<base, localState, backups, now, pc, imp, slot, listing,
                   call, uw, stateTmp>>

\* lines 518-519: tmpdir is named after the second and made, exist_ok
ThMkTmp(t) ==
    /\ threads[t].pc = "mktmp"
    /\ LET tmpdir == threads[t].folder_name \o TmpInfix \o Stamp(now)
       IN  /\ ThreadStep(t, [threads[t] EXCEPT !.tmpdir = tmpdir,
                                               !.pc = "extracting"])
           /\ base' = IF tmpdir \in DOMAIN base THEN base
                      ELSE Put(base, tmpdir, DirNode(EmptyDict))
    /\ UNCHANGED <<localState, backups, now, pc, imp, slot, listing, call, uw,
                   stateTmp>>

\* the contents of the directory nm, {} when it is not there
KidsOf(b, nm) == IF nm \in DOMAIN b THEN b[nm].kids ELSE EmptyDict

\* line 522: extractall makes the directory again when it was moved away
ThExtract(t) ==
    /\ threads[t].pc = "extracting"
    /\ \E r \in unzip_to_folder(KidsOf(base, threads[t].tmpdir), ThArchive, "ok") :
          /\ base' = Put(base, threads[t].tmpdir, DirNode(r.kids))
          /\ ThreadStep(t, [threads[t] EXCEPT
                               !.pc = IF r.raised THEN "failed" ELSE "unwrapping"])
    /\ UNCHANGED <<localState, backups, now, pc, imp, slot, listing, call, uw,
                   stateTmp>>

\* line 523: flatten_if_wrapped; a directory that was moved away makes
\* root.iterdir() raise, which is logged
ThFlatten(t) ==
    /\ threads[t].pc = "unwrapping"
    /\ IF threads[t].tmpdir \in DOMAIN base
       THEN \E r \in flatten_if_wrapped(base[threads[t].tmpdir].kids) :
               base' = Put(base, threads[t].tmpdir, DirNode(r.kids))
       ELSE UNCHANGED base
    /\ ThreadStep(t, [threads[t] EXCEPT !.pc = "placing"])
    /\ UNCHANGED <<localState, backups, now, pc, imp, slot, listing, call, uw,
                   stateTmp>>

\* line 526: shutil.move(tmpdir, dest); a missing tmpdir raises
ThPlace(t) ==
    /\ threads[t].pc = "placing"
    /\ LET src == threads[t].tmpdir
           dst == threads[t].folder_name
       IN  IF src \notin DOMAIN base \/ MoveRaises(base, src, dst)
           THEN /\ ThreadStep(t, [threads[t] EXCEPT !.pc = "failed"])
                /\ UNCHANGED base
           ELSE /\ ThreadStep(t, [threads[t] EXCEPT !.pc = "placed"])
                /\ base' = Move(base, src, dst)
    /\ UNCHANGED <<localState, backups, now, pc, imp, slot, listing, call, uw,
                   stateTmp>>

\* lines 529-534: the entry field is read, the name resolved and stamped into
\* the Preferences of dest (taken as one step)
ThStamp(t) ==
    /\ threads[t].pc = "placed"
    /\ \E text \in ThEntryTexts :
          LET dest == base[threads[t].folder_name].kids
              desired_name == ResolveName(text, dest, threads[t].folder_name)
              r == ensure_preferences_display_name(dest, desired_name, "ok")
          IN  /\ base' = Put(base, threads[t].folder_name, DirNode(r.kids))
              /\ ThreadStep(t, [threads[t] EXCEPT !.desired_name = desired_name,
                                                  !.pc = "backing_up"])
    /\ UNCHANGED <<localState, backups, now, pc, imp, slot, listing, call, uw,
                   stateTmp>>

\* lines 206-211: the registry file is copied to its timestamped backup
ThBackup(t) ==
    /\ threads[t].pc = "backing_up"
    /\ backups' = IF localState.exists THEN Put(backups, now, localState.text)
                  ELSE backups
    /\ ThreadStep(t, [threads[t] EXCEPT !.pc = "reading"])
    /\ UNCHANGED <<base, localState, now, pc, imp, slot, listing, call, uw,
                   stateTmp>>

\* lines 213-232: the registry is read and the new document built in memory
ThRead(t) ==
    /\ threads[t].pc = "reading"
    /\ LET data == read_json(localState)
       IN  IF RegisterRaises(data, threads[t].folder_name)
           THEN ThreadStep(t, [threads[t] EXCEPT !.pc = "failed"])
           ELSE ThreadStep(t, [threads[t] EXCEPT
                    !.doc = RegisterDoc(data, threads[t].folder_name,
                                        threads[t].desired_name),
                    !.before = localState,
                    !.pc = "opening"])
    /\ UNCHANGED <<base, localState, backups, now, pc, imp, slot, listing,
                   call, uw, stateTmp>>

\* line 85, tmp.write_text: "Local State.tmp" is opened for writing, which
\* creates it or empties it
ThOpenTmp(t) ==
    /\ threads[t].pc = "opening"
    /\ \E io \in {"ok", "fail"} :
          IF io = "ok"
          THEN /\ stateTmp' = File(Truncated)
               /\ ThreadStep(t, [threads[t] EXCEPT !.handle = "tmp",
                                                   !.pc = "writing"])
          ELSE /\ UNCHANGED stateTmp
               /\ ThreadStep(t, [threads[t] EXCEPT !.ok = "failed",
                                                   !.pc = "finishing"])
    /\ UNCHANGED <<base, localState, backups, now, pc, imp, slot, listing,
                   call, uw>>

\* line 85, tmp.write_text: the text goes into the file the handle is open
\* on, wherever a rename has taken that file since; a failed write leaves it
\* cut short
ThWriteTmp(t) ==
    /\ threads[t].pc = "writing"
    /\ \E io \in {"ok", "fail"} :
          LET text == IF io = "ok" THEN Dumps(threads[t].doc) ELSE Truncated
          IN  /\ stateTmp' = IF threads[t].handle = "tmp" THEN File(text)
                             ELSE stateTmp
              /\ localState' = IF threads[t].handle = "target" THEN File(text)
                               ELSE localState
              /\ ThreadStep(t, [threads[t] EXCEPT
                     !.handle = "none",
                     !.ok = IF io = "ok" THEN "none" ELSE "failed",
                     !.pc = IF io = "ok" THEN "replacing" ELSE "finishing"])
    /\ UNCHANGED <<base, backups, now, pc, imp, slot, listing, call, uw>>

\* line 86, tmp.replace(path): the temporary file takes the place of the
\* registry, together with every handle open on it; a missing temporary file
\* raises FileNotFoundError, caught at line 88
ThReplace(t) ==
    /\ threads[t].pc = "replacing"
    /\ \E io \in {"ok", "fail"} :
          IF io = "ok" /\ stateTmp.exists
          THEN /\ localState' = stateTmp
               /\ stateTmp' = NoFile
               /\ threads' = [u \in Threads |->
                     IF u = t
                     THEN [threads[t] EXCEPT !.ok = "wrote", !.pc = "finishing"]
                     ELSE [threads[u] EXCEPT !.handle =
                              IF threads[u].handle = "tmp" THEN "target"
                              ELSE IF threads[u].handle = "target" THEN "orphan"
                              ELSE threads[u].handle]]
          ELSE /\ UNCHANGED <<localState, stateTmp>>
               /\ ThreadStep(t, [threads[t] EXCEPT !.ok = "failed",
                                                   !.pc = "finishing"])
    /\ UNCHANGED <<base, backups, now, pc, imp, slot, listing, call, uw>>

\* lines 235-238 and 539-553: the outcome of the write is logged and the
\* import goes on to its success dialog
ThFinish(t) ==
    /\ threads[t].pc = "finishing"
    /\ ThreadStep(t, [threads[t] EXCEPT !.pc = "done"])
    /\ UNCHANGED <<base, localState, backups, now, pc, imp, slot, listing,
                   call, uw, stateTmp>>

NextThreads ==
    \/ \E t \in Threads :
          \/ RunExport(t)
          \/ ExportZip(t)
          \/ RunImport(t)
          \/ ThChooseSlot(t)
          \/ ThMkTmp(t)
          \/ ThExtract(t)
          \/ ThFlatten(t)
          \/ ThPlace(t)
          \/ ThStamp(t)
          \/ ThBackup(t)
          \/ ThRead(t)
          \/ ThOpenTmp(t)
          \/ ThWriteTmp(t)
          \/ ThReplace(t)
          \/ ThFinish(t)
    \/ Tick

SpecThreads == InitThreads /\ [][NextThreads]_vars

\* thread t has been started and has not come to its end
InFlight(t) == threads[t].pc \notin {"idle", "done", "failed"}

\* thread t has chosen its slot
HasSlot(t) == InFlight(t) /\ threads[t].kind = "import"
                 /\ threads[t].folder_name # <<>>

\* C11: at most one export or import is in progress at any moment.
C11_OneOperationAtATime ==
    Cardinality({t \in Threads : InFlight(t)}) <= 1

\* so two imports in flight never hold the same next slot
C11_DistinctSlots ==
    \A t, u \in Threads :
        (t # u /\ HasSlot(t) /\ HasSlot(u)) =>
            threads[t].folder_name # threads[u].folder_name

\* nor the same temporary directory
C11_DistinctTmpDirs ==
    \A t, u \in Threads :
        (t # u /\ HasSlot(t) /\ HasSlot(u) /\ threads[t].tmpdir # <<>>) =>
            threads[t].tmpdir # threads[u].tmpdir

\* the registry file holds a whole document
Complete(file) == file.exists => file.text.json

\* C12: at every point of write_json_atomic, whatever step fails, the
\* registry file holds a whole document, the previous or the new one, never
\* a cut or an empty one.
C12_AtomicWrite == Complete(localState)

\* and a write that failed has left the registry as it was
C12_FailedWriteUntouched ==
    \A t \in Threads :
        (threads[t].ok = "failed" /\ threads[t].pc \in {"finishing", "done"}) =>
            \/ localState = threads[t].before
            \/ \E u \in Threads : u # t /\ threads[u].ok = "wrote"
                                        /\ localState = File(Dumps(threads[u].doc))

\* one thread alone: the registry is the previous document until the rename
\* and the new one after it; a failed write leaves the previous one and the
\* thread goes on to its end
C12_SingleWriterAtomic ==
    \A t \in Threads :
        (\A u \in Threads : u # t => threads[u].kind # "import") =>
            /\ Complete(localState)
            /\ threads[t].pc \in {"opening", "writing", "replacing"} =>
                  localState = threads[t].before
            /\ (threads[t].pc \in {"finishing", "done"} /\ threads[t].ok = "failed") =>
                  localState = threads[t].before
            /\ (threads[t].pc \in {"finishing", "done"} /\ threads[t].ok = "wrote") =>
                  localState = File(Dumps(threads[t].doc))

====
